---- MODULE Spec2Model ----
(***************************************************************************)
(* A model of miditopus (src/app.py): the poller thread update_ports and   *)
(* the main loop of main(), which share the dictionaries inputs, outputs   *)
(* and connections without any lock.  Each action is one step of one of    *)
(* the two threads, at the granularity at which the interpreter may switch *)
(* threads: every read or write of a shared dictionary is a step of its    *)
(* own; what a thread does to its own locals in between belongs to the     *)
(* step that follows.  An exception that nothing catches ends the thread   *)
(* that raised it: app.py has no try.                                      *)
(***************************************************************************)
EXTENDS Integers, Sequences, FiniteSets, TLC

\* ------------------------------------------------------------ bounds
\* messages waiting in the queue of one input port
MaxPending == 1
\* events in one batch of pygame.event.get()
MaxEvents == 2

\* ------------------------------------------------- program constants
\* pygame.display.set_mode([800, 480])
width == 800
height == 480
HalfWidth == width \div 2

\* ------------------------------------------------------------ values
\* Python values of different types, kept apart: a str is never equal to
\* an int.  A device name is a sequence of words.
PyStr(s) == <<"str", s>>
PyInt(k) == <<"int", k>>
None == <<"None">>
Port == <<"port">>
NoPort == <<"none">>

USB1 == PyStr(<<"USB", "MIDI", "1">>)
THRU == PyStr(<<"Midi", "Through", ":", "Midi", "Through", "Port", "-0">>)
SYNA == PyStr(<<"Synth", "A">>)
RTOUT == PyStr(<<"Client", ":", "RtMidi", "output">>)

\* the names the operating system may report
InputNames == {USB1, THRU}
OutputNames == {SYNA, RTOUT}
\* sorted(): the order of Python's string comparison
NameOrder == <<RTOUT, THRU, SYNA, USB1>>

Msgs == {<<144, 64, 127>>, <<128, 64, 0>>}
Xs == {100, 500}
Ys == {0, 300}
Positions == Xs \X Ys

IGNORED_DEVICES == {<<"Midi", "Through", "Port">>, <<"RtMidi">>}

\* `device in name` of Python: device is a contiguous part of name
Contains(name, device) ==
    \E i \in 1..(Len(name) - Len(device) + 1) :
        SubSeq(name, i, i + Len(device) - 1) = device

\* all(device not in name for device in IGNORED_DEVICES)
NotIgnored(name) == \A device \in IGNORED_DEVICES : ~Contains(name[2], device)

\* `any` in the place of `all` at line 59: a name passes when it lacks some
\* ignored device
FilterNames_AnyDevice(names) ==
    {name \in names : \E dev \in IGNORED_DEVICES : ~Contains(name[2], dev)}

\* {name for name in names if all(...)}
FilterNames(names) == {name \in names : NotIgnored(name)}

\* sorted(ports)
Sorted(ports) == SelectSeq(NameOrder, LAMBDA n : n \in ports)

\* dictionaries
EmptyDict == [x \in {} |-> None]
Del(d, k) == [x \in DOMAIN d \ {k} |-> d[x]]
Put(d, k, v) == (k :> v) @@ d
\* connections[k] of a defaultdict(set), read without the insertion
Get(conn, k) == IF k \in DOMAIN conn THEN conn[k] ELSE {}
\* the edges of the adjacency mapping
Edges(conn) == {e \in (DOMAIN conn) \X UNION {conn[x] : x \in DOMAIN conn} :
                   e[2] \in conn[e[1]]}

VARIABLES
    \* the shared dictionaries (main, lines 95-97)
    inputs, outputs, connections,
    \* the device side: the queue of each open input port, what each output
    \* was sent
    pending, sent,
    \* the frame of main(): pc, error (the exception that left it) and its
    \* locals
    m,
    \* the frame of update_ports()
    p,
    \* history: the pairs the drags joined on screen, the queues at the start
    \* of the tick, what the poll cycle under way has seen and done, and the
    \* devices a port of which was let go without close()
    h

shared == <<inputs, outputs, connections>>
device == <<pending, sent>>
vars == <<inputs, outputs, connections, pending, sent, m, p, h>>

NoQueues == [i \in InputNames |-> <<>>]

MainFrame ==
    [pc |-> "events", error |-> "", done |-> FALSE, drag_start |-> None,
     nevents |-> 0, iter_size |-> 0, iter_seen |-> {}, source |-> None,
     targets |-> {}, draw_todo |-> {}]

PollFrame ==
    [pc |-> "idle", new_inputs |-> {}, new_outputs |-> {}, todo |-> {},
     removed |-> None, iter_size |-> 0, iter_seen |-> {}]

\* d[k] loses its last reference in the dictionary (del d[k], d[k] = None).
\* The program never calls close(): the port is closed only if its finalizer
\* has run by then, which the program does not control.
Dropped(d, k, finalized) ==
    IF k \in DOMAIN d /\ d[k] = Port /\ ~finalized THEN h.dropped \cup {k}
    ELSE h.dropped

Init ==
    /\ inputs = EmptyDict /\ outputs = EmptyDict /\ connections = EmptyDict
    /\ pending = NoQueues
    /\ sent = [o \in OutputNames |-> <<>>]
    /\ m = MainFrame
    /\ p = PollFrame
    /\ h = [wanted |-> {}, tick_pending |-> NoQueues, cycled |-> FALSE,
            same |-> FALSE, changed |-> FALSE, ignored_seen |-> FALSE,
            dropped |-> {}]

\* ---------------------------------------------------------- main loop
\* lines 163-166
SameSide(start_x, end_x) ==
    \/ (start_x < HalfWidth /\ end_x < HalfWidth)
    \/ (start_x > HalfWidth /\ end_x > HalfWidth)

\* lines 168-171
InputY(s, e) == IF s[1] < HalfWidth THEN s[2] ELSE e[2]
OutputY(s, e) == IF s[1] < HalfWidth THEN e[2] ELSE s[2]

\* lines 173-174: an int, whatever the device names are
InputId(s, e) == PyInt((Cardinality(DOMAIN inputs) * height) \div InputY(s, e))
OutputId(s, e) == PyInt((Cardinality(DOMAIN outputs) * height) \div OutputY(s, e))

\* lines 176-179; connections[k] inserts k (defaultdict) before the test
Toggle(conn, k, t) ==
    Put(conn, k, IF t \in Get(conn, k) THEN Get(conn, k) \ {t}
                                       ELSE Get(conn, k) \cup {t})

\* the port whose rectangle holds y (draw_ports, lines 193-200): row i of
\* sorted(ports) spans i*height/len(ports) .. (i+1)*height/len(ports)
PortAt(ports, y) ==
    IF ports = {} \/ y >= height THEN NoPort
    ELSE Sorted(ports)[((y * Cardinality(ports)) \div height) + 1]

\* the pair of ports a drag joins on screen
Dragged(s, e) ==
    <<PortAt(DOMAIN inputs, InputY(s, e)), PortAt(DOMAIN outputs, OutputY(s, e))>>

ToggleWanted(w, s, e) ==
    IF NoPort \in {Dragged(s, e)[1], Dragged(s, e)[2]} THEN w
    ELSE IF Dragged(s, e) \in w THEN w \ {Dragged(s, e)} ELSE w \cup {Dragged(s, e)}

MainAt(pc) == m.error = "" /\ m.pc = pc

\* An exception nothing catches leaves main(): its locals are gone and the
\* loop takes no further step; pc keeps the place that raised.
Raised(e) == [MainFrame EXCEPT !.pc = m.pc, !.error = e]

\* line 109-110
MainQuit ==
    /\ MainAt("events") /\ m.nevents < MaxEvents
    /\ m' = [m EXCEPT !.done = TRUE, !.nevents = @ + 1]
    /\ UNCHANGED <<shared, device, p, h>>

\* line 111-112
MainMouseDown(pos) ==
    /\ MainAt("events") /\ m.nevents < MaxEvents
    /\ m' = [m EXCEPT !.drag_start = pos, !.nevents = @ + 1]
    /\ UNCHANGED <<shared, device, p, h>>

\* lines 113-123 with handle_connection, lines 158-179
MainMouseUp(drag_end) ==
    /\ MainAt("events") /\ m.nevents < MaxEvents
    /\ IF m.drag_start = None
       THEN \* line 159: start_x, start_y = drag_start
            m' = Raised("TypeError") /\ UNCHANGED <<connections, h>>
       ELSE IF SameSide(m.drag_start[1], drag_end[1])
       THEN /\ m' = [m EXCEPT !.drag_start = None, !.nevents = @ + 1]
            /\ UNCHANGED <<connections, h>>
       ELSE IF InputY(m.drag_start, drag_end) = 0 \/ OutputY(m.drag_start, drag_end) = 0
       THEN m' = Raised("ZeroDivisionError") /\ UNCHANGED <<connections, h>>
       ELSE /\ connections' = Toggle(connections, InputId(m.drag_start, drag_end),
                                     OutputId(m.drag_start, drag_end))
            /\ h' = [h EXCEPT !.wanted = ToggleWanted(@, m.drag_start, drag_end)]
            /\ m' = [m EXCEPT !.drag_start = None, !.nevents = @ + 1]
    /\ UNCHANGED <<inputs, outputs, device, p>>

\* line 126: the event batch is over; iter(connections.items())
MainEventsDone ==
    /\ MainAt("events")
    /\ m' = [m EXCEPT !.pc = "propagate", !.drag_start = None, !.nevents = 0,
                      !.iter_size = Cardinality(DOMAIN connections),
                      !.iter_seen = {}]
    /\ h' = [h EXCEPT !.tick_pending = pending]
    /\ UNCHANGED <<shared, device, p>>

\* line 126: the next item of the iterator.  A dictionary whose size changed
\* since iter() raises RuntimeError.  `targets` designates the set of the item.
MainNextSource ==
    /\ MainAt("propagate")
    /\ IF Cardinality(DOMAIN connections) # m.iter_size
       THEN m' = Raised("RuntimeError")
       ELSE IF DOMAIN connections \ m.iter_seen = {}
       THEN m' = [m EXCEPT !.pc = "draw_in", !.iter_size = 0, !.iter_seen = {}]
       ELSE \E s \in DOMAIN connections \ m.iter_seen :
               m' = [m EXCEPT !.pc = "check", !.source = s,
                              !.targets = connections[s],
                              !.iter_seen = @ \cup {s}]
    /\ UNCHANGED <<shared, device, p, h>>

\* line 127: inputs[source] is None
MainCheckInput ==
    /\ MainAt("check")
    /\ IF m.source \notin DOMAIN inputs
       THEN m' = Raised("KeyError")
       ELSE m' = [m EXCEPT !.pc = IF inputs[m.source] = None THEN "open" ELSE "iter"]
    /\ UNCHANGED <<shared, device, p, h>>

\* line 128: mido.open_input(source) raises
MainOpenInputFails ==
    /\ MainAt("open")
    /\ m' = Raised("IOError")
    /\ UNCHANGED <<shared, device, p, h>>

\* line 128: inputs[source] = mido.open_input(source); the store inserts the
\* key when the poller has deleted it since line 127
MainOpenInput ==
    /\ MainAt("open")
    /\ inputs' = Put(inputs, m.source, Port)
    /\ pending' = [pending EXCEPT ![m.source] = <<>>]
    /\ m' = [m EXCEPT !.pc = "iter"]
    /\ UNCHANGED <<outputs, connections, sent, p, h>>

\* line 129: inputs[source].iter_pending(); the poller may have deleted the
\* key, or deleted it and stored None under it again, since line 128
MainIterPending ==
    /\ MainAt("iter")
    /\ IF m.source \notin DOMAIN inputs
       THEN m' = Raised("KeyError")
       ELSE IF inputs[m.source] = None
       THEN m' = Raised("AttributeError")
       ELSE m' = [m EXCEPT !.pc = "forward"]
    /\ UNCHANGED <<shared, device, p, h>>

\* lines 130-133 for one message: the targets in the order the set yields
\* them; st is [outputs, sent, error].  failing: the targets whose
\* mido.open_output raises.
RECURSIVE ForwardTo(_, _, _, _, _)
ForwardTo(order, failing, src, message, st) ==
    IF order = <<>> \/ st.error # "" THEN st
    ELSE LET target == Head(order) IN
         IF target \notin DOMAIN st.outputs
         THEN [st EXCEPT !.error = "KeyError"]
         ELSE IF st.outputs[target] = None /\ target \in failing
         THEN [st EXCEPT !.error = "IOError"]
         ELSE ForwardTo(Tail(order), failing, src, message,
                        [outputs |-> Put(st.outputs, target, Port),
                         sent |-> [st.sent EXCEPT ![target] =
                                      Append(@, <<src, message>>)],
                         error |-> ""])

\* the orders in which a set may yield its members
Orders(S) == {f \in [1..Cardinality(S) -> S] : \A i, j \in DOMAIN f : f[i] = f[j] => i = j}

\* lines 129-133: the generator yields the next pending message, which goes
\* to every target; when nothing is pending the loop of line 126 goes on
MainForward ==
    /\ MainAt("forward")
    /\ IF pending[m.source] = <<>>
       THEN /\ m' = [m EXCEPT !.pc = "propagate", !.source = None, !.targets = {}]
            /\ UNCHANGED <<outputs, pending, sent>>
       ELSE \E order \in Orders(m.targets), failing \in SUBSET m.targets :
              LET st == ForwardTo(order, failing, m.source, Head(pending[m.source]),
                                  [outputs |-> outputs, sent |-> sent, error |-> ""])
              IN  /\ pending' = [pending EXCEPT ![m.source] = Tail(@)]
                  /\ outputs' = st.outputs
                  /\ sent' = st.sent
                  /\ m' = IF st.error # "" THEN Raised(st.error) ELSE m
    /\ UNCHANGED <<inputs, connections, p, h>>

\* draw_ports, line 193: sorted(ports)
MainSortPorts(at, ports, body) ==
    /\ MainAt(at)
    /\ m' = [m EXCEPT !.pc = body, !.draw_todo = DOMAIN ports]
    /\ h' = [h EXCEPT !.tick_pending = NoQueues]
    /\ UNCHANGED <<shared, device, p>>

\* draw_ports, lines 193-211, the rows of the names sorted() gave: each
\* divides by len(ports)
MainDrawPorts(at, ports, next) ==
    /\ MainAt(at)
    /\ IF m.draw_todo # {} /\ Cardinality(DOMAIN ports) = 0
       THEN m' = Raised("ZeroDivisionError")
       ELSE m' = [m EXCEPT !.pc = next, !.draw_todo = {}]
    /\ UNCHANGED <<shared, device, p, h>>

\* line 136
MainSortInputs == MainSortPorts("draw_in", inputs, "draw_in_body")
MainDrawInputs == MainDrawPorts("draw_in_body", inputs, "draw_conn")

\* draw_connections, line 220: sorted(inputs)
MainSortConnections == MainSortPorts("draw_conn", inputs, "draw_conn_body")

\* draw_connections, lines 221-228 for one name: connections[name] inserts
\* the name with an empty set (defaultdict); each cell divides by
\* len(inputs) and by len(connections[name])
MainDrawConnections ==
    /\ MainAt("draw_conn_body")
    /\ IF m.draw_todo = {}
       THEN m' = [m EXCEPT !.pc = "draw_out"] /\ UNCHANGED connections
       ELSE \E name \in m.draw_todo :
              /\ connections' = Put(connections, name, Get(connections, name))
              /\ m' = IF Get(connections, name) # {} /\ Cardinality(DOMAIN inputs) = 0
                      THEN Raised("ZeroDivisionError")
                      ELSE [m EXCEPT !.draw_todo = @ \ {name}]
    /\ UNCHANGED <<inputs, outputs, device, p, h>>

\* line 138
MainSortOutputs == MainSortPorts("draw_out", outputs, "draw_out_body")

\* line 138, then lines 139-142, `while not done` (line 106) and line 107,
\* or line 144
MainDrawOutputs ==
    /\ MainAt("draw_out_body")
    /\ IF m.draw_todo # {} /\ Cardinality(DOMAIN outputs) = 0
       THEN m' = Raised("ZeroDivisionError")
       ELSE m' = [m EXCEPT !.pc = IF m.done THEN "exited" ELSE "events",
                           !.draw_todo = {}, !.done = FALSE]
    /\ UNCHANGED <<shared, device, p, h>>

Main ==
    \/ MainQuit
    \/ \E pos \in Positions : MainMouseDown(pos)
    \/ \E pos \in Positions : MainMouseUp(pos)
    \/ MainEventsDone
    \/ MainNextSource
    \/ MainCheckInput
    \/ MainOpenInputFails
    \/ MainOpenInput
    \/ MainIterPending
    \/ MainForward
    \/ MainSortInputs
    \/ MainDrawInputs
    \/ MainSortConnections
    \/ MainDrawConnections
    \/ MainSortOutputs
    \/ MainDrawOutputs

\* ------------------------------------------------------- poller thread
\* An exception ends the thread: update_ports catches nothing.
PollRaised == [PollFrame EXCEPT !.pc = "dead"]

\* lines 56-60 and 68-72: mido.get_input_names() / get_output_names() raises
PollEnumFails ==
    /\ p.pc = "idle" \/ (p.pc = "add_in" /\ p.todo = {})
    /\ p' = PollRaised
    /\ h' = [h EXCEPT !.same = FALSE, !.changed = FALSE]
    /\ UNCHANGED <<shared, device, m>>

\* lines 55-61: the names the system reports, new_inputs, and
\* set(inputs) - new_inputs.  h.same: no ignored name was ever reported, so
\* each list reported is the set kept of it, and this list is the one of the
\* cycle before.
PollInputs ==
    /\ p.pc = "idle"
    /\ \E names \in SUBSET InputNames :
         /\ p' = [p EXCEPT !.pc = "rm_in", !.new_inputs = FilterNames(names),
                           !.todo = DOMAIN inputs \ FilterNames(names)]
         /\ h' = [h EXCEPT !.same = h.cycled /\ ~h.ignored_seen /\ names = p.new_inputs,
                           !.changed = FALSE,
                           !.ignored_seen = @ \/ names # FilterNames(names)]
    /\ UNCHANGED <<shared, device, m>>

\* line 62: del inputs[removed]
PollDelInput ==
    /\ p.pc = "rm_in" /\ p.todo # {}
    /\ \E r \in p.todo, finalized \in BOOLEAN :
         /\ inputs' = Del(inputs, r)
         /\ p' = [p EXCEPT !.pc = "del_conn", !.removed = r, !.todo = @ \ {r}]
         /\ h' = [h EXCEPT !.changed = TRUE,
                           !.dropped = Dropped(inputs, r, finalized)]
    /\ UNCHANGED <<outputs, connections, device, m>>

\* lines 63-64: if removed in connections: del connections[removed]
PollDelConnections ==
    /\ p.pc = "del_conn"
    /\ connections' = Del(connections, p.removed)
    /\ p' = [p EXCEPT !.pc = "rm_in", !.removed = None]
    /\ UNCHANGED <<inputs, outputs, device, m, h>>

\* line 65: new_inputs - set(inputs)
PollAddedInputs ==
    /\ p.pc = "rm_in" /\ p.todo = {}
    /\ p' = [p EXCEPT !.pc = "add_in", !.todo = p.new_inputs \ DOMAIN inputs]
    /\ UNCHANGED <<shared, device, m, h>>

\* line 66: inputs[added] = None
PollAddInput ==
    /\ p.pc = "add_in" /\ p.todo # {}
    /\ \E added \in p.todo, finalized \in BOOLEAN :
         /\ inputs' = Put(inputs, added, None)
         /\ p' = [p EXCEPT !.todo = @ \ {added}]
         /\ h' = [h EXCEPT !.changed = TRUE,
                           !.dropped = Dropped(inputs, added, finalized)]
    /\ UNCHANGED <<outputs, connections, device, m>>

\* lines 68-73: the names the system reports, new_outputs, and
\* set(outputs) - new_outputs
PollOutputs ==
    /\ p.pc = "add_in" /\ p.todo = {}
    /\ \E names \in SUBSET OutputNames :
         /\ p' = [p EXCEPT !.pc = "rm_out", !.new_outputs = FilterNames(names),
                           !.todo = DOMAIN outputs \ FilterNames(names)]
         /\ h' = [h EXCEPT !.same = @ /\ ~h.ignored_seen /\ names = p.new_outputs,
                           !.ignored_seen = @ \/ names # FilterNames(names)]
    /\ UNCHANGED <<shared, device, m>>

\* lines 74-75: del outputs[removed]; iter(connections.values())
PollDelOutput ==
    /\ p.pc = "rm_out" /\ p.todo # {}
    /\ \E r \in p.todo, finalized \in BOOLEAN :
         /\ outputs' = Del(outputs, r)
         /\ p' = [p EXCEPT !.pc = "cascade", !.removed = r, !.todo = @ \ {r},
                           !.iter_size = Cardinality(DOMAIN connections),
                           !.iter_seen = {}]
         /\ h' = [h EXCEPT !.changed = TRUE,
                           !.dropped = Dropped(outputs, r, finalized)]
    /\ UNCHANGED <<inputs, connections, device, m>>

\* lines 75-77 for one target set; a dictionary whose size changed since
\* iter() raises RuntimeError
PollCascade ==
    /\ p.pc = "cascade"
    /\ IF Cardinality(DOMAIN connections) # p.iter_size
       THEN /\ p' = PollRaised
            /\ h' = [h EXCEPT !.same = FALSE, !.changed = FALSE]
            /\ UNCHANGED connections
       ELSE IF DOMAIN connections \ p.iter_seen = {}
       THEN /\ p' = [p EXCEPT !.pc = "rm_out", !.removed = None, !.iter_size = 0,
                              !.iter_seen = {}]
            /\ UNCHANGED <<connections, h>>
       ELSE \E k \in DOMAIN connections \ p.iter_seen :
              /\ connections' = [connections EXCEPT ![k] = @ \ {p.removed}]
              /\ p' = [p EXCEPT !.iter_seen = @ \cup {k}]
              /\ UNCHANGED h
    /\ UNCHANGED <<inputs, outputs, device, m>>

\* line 78: new_outputs - set(outputs)
PollAddedOutputs ==
    /\ p.pc = "rm_out" /\ p.todo = {}
    /\ p' = [p EXCEPT !.pc = "add_out", !.todo = p.new_outputs \ DOMAIN outputs]
    /\ UNCHANGED <<shared, device, m, h>>

\* line 79: outputs[added] = None
PollAddOutput ==
    /\ p.pc = "add_out" /\ p.todo # {}
    /\ \E added \in p.todo, finalized \in BOOLEAN :
         /\ outputs' = Put(outputs, added, None)
         /\ p' = [p EXCEPT !.todo = @ \ {added}]
         /\ h' = [h EXCEPT !.changed = TRUE,
                           !.dropped = Dropped(outputs, added, finalized)]
    /\ UNCHANGED <<inputs, connections, device, m>>

\* line 81: time.sleep(DEVICE_POLL); the cycle is complete
PollSleep ==
    /\ p.pc = "add_out" /\ p.todo = {}
    /\ p' = [p EXCEPT !.pc = "idle"]
    /\ h' = [h EXCEPT !.cycled = TRUE]
    /\ UNCHANGED <<shared, device, m>>

Poller ==
    \/ PollEnumFails
    \/ PollInputs
    \/ PollDelInput
    \/ PollDelConnections
    \/ PollAddedInputs
    \/ PollAddInput
    \/ PollOutputs
    \/ PollDelOutput
    \/ PollCascade
    \/ PollAddedOutputs
    \/ PollAddOutput
    \/ PollSleep

\* ------------------------------------------------------------- devices
\* a message reaches the queue of an open input port
Arrive ==
    /\ \E i \in DOMAIN inputs, message \in Msgs :
         /\ inputs[i] # None
         /\ Len(pending[i]) < MaxPending
         /\ pending' = [pending EXCEPT ![i] = Append(@, message)]
    /\ UNCHANGED <<shared, sent, m, p, h>>

Next == Main \/ Poller \/ Arrive

Spec == Init /\ [][Next]_vars

\* ------------------------------------------------------------- claims
InTick == m.error = "" /\ m.pc \in {"propagate", "check", "open", "iter", "forward"}
TickOver ==
    \/ m.error = "" /\ m.pc = "draw_in"
    \/ m.error # "" /\ m.pc \in {"propagate", "check", "open", "iter", "forward"}
CycleComplete == p.pc = "idle" /\ h.cycled

\* C1: in every reachable state every edge of `connections` has its source
\* among the keys of `inputs` and its target among the keys of `outputs`.
C1_EdgesJoinKnownDevices ==
    \A e \in Edges(connections) : e[1] \in DOMAIN inputs /\ e[2] \in DOMAIN outputs

\* C2: the accesses of the poller and of the routing tick are serialized:
\* while a tick is under way the poller is never between deleting a device
\* (line 62) and deleting its edges (line 64), be it for the item the tick
\* has read or for a key of the dictionary the tick iterates.
C2_TickSeesNoPartialRemoval ==
    InTick => ~(/\ p.pc = "del_conn"
                /\ (p.removed = m.source \/ p.removed \in DOMAIN connections))

\* C3: once a poll cycle is complete, every device the system did not report
\* in it is out of the known sets and no edge refers to it.
C3_UnreportedDevicesGone ==
    CycleComplete =>
        /\ DOMAIN inputs \subseteq p.new_inputs
        /\ DOMAIN outputs \subseteq p.new_outputs
        /\ \A e \in Edges(connections) :
             /\ e[1] \in InputNames => e[1] \in p.new_inputs
             /\ e[2] \in OutputNames => e[2] \in p.new_outputs

\* C4: a toggle of a known input i and a known output o (a drag from the row
\* of i to the row of o) adds the edge (i, o) when it is absent and removes
\* it when it is present, so that two of them in sequence restore the edges.
C4_ToggleFlipsTheEdge ==
    [][\A i \in InputNames, o \in OutputNames :
         ((<<i, o>> \in h.wanted) # (<<i, o>> \in h'.wanted))
            => ((o \in Get(connections, i)) # (o \in Get(connections', i)))]_vars

\* the ids a drag designates are not both known devices
UnknownToggle(drag_end) ==
    /\ MainAt("events") /\ m.nevents < MaxEvents
    /\ m.drag_start # None
    /\ ~SameSide(m.drag_start[1], drag_end[1])
    /\ InputY(m.drag_start, drag_end) # 0 /\ OutputY(m.drag_start, drag_end) # 0
    /\ \/ InputId(m.drag_start, drag_end) \notin DOMAIN inputs
       \/ OutputId(m.drag_start, drag_end) \notin DOMAIN outputs

\* C5: a toggle whose input id or output id is not a known device changes
\* neither the known-device sets nor the edges.
C5_UnknownToggleIsNoOp ==
    [][\A drag_end \in Positions :
         (UnknownToggle(drag_end) /\ m'.drag_start = None /\ m'.nevents = m.nevents + 1)
            => /\ Edges(connections') = Edges(connections)
               /\ DOMAIN inputs' = DOMAIN inputs
               /\ DOMAIN outputs' = DOMAIN outputs]_vars

C8_IgnoredNeverKnown ==
    \A name \in DOMAIN inputs \cup DOMAIN outputs :
        name[1] = "str" /\ NotIgnored(name)

\* the system has reported an ignored name, a cycle is complete and devices
\* are known
C8_Witness ==
    /\ CycleComplete /\ h.ignored_seen
    /\ DOMAIN inputs # {} /\ DOMAIN outputs # {}

\* C9: a poll cycle in which the system reports the lists of the cycle
\* before neither adds nor removes a device.
C9_SecondPollQuiet ==
    (CycleComplete /\ h.same) => ~h.changed

\* C11: a failure to open the port of an input in a routing tick does not
\* halt the loop: main() is never left by the exception of line 128.
C11_OpenFailureKeepsLoop ==
    ~(m.pc = "open" /\ m.error # "")

\* C12: a failure to enumerate the input names (line 58) or the output names
\* (line 70) never ends the poller.
C12_EnumFailureKeepsPoller ==
    [][(p.pc = "idle" \/ (p.pc = "add_in" /\ p.todo = {})) => p'.pc # "dead"]_vars

\* the threads are scheduled for as long as they have a step to take
FairSpec == Spec /\ WF_vars(Main) /\ WF_vars(Poller)

\* a port is open under k
Live(d, k) == k \in DOMAIN d /\ d[k] = Port

NoLiveHandle ==
    /\ h.dropped = {}
    /\ \A k \in DOMAIN inputs : ~Live(inputs, k)
    /\ \A k \in DOMAIN outputs : ~Live(outputs, k)

\* C13: once the main loop has left on a quit event (line 144), the poller
\* eventually stops too, with every port that was opened closed.
C13_ShutdownStopsAll ==
    (m.pc = "exited") ~> (p.pc = "dead" /\ NoLiveHandle)

\* C14: no device has two live ports: a port of it let go unclosed by the
\* poller and a port open under its name.
C14_OneLiveHandlePerDevice ==
    \A k \in h.dropped : ~Live(inputs, k) /\ ~Live(outputs, k)

\* C15: only steps of update_ports change the key sets of `inputs` and
\* `outputs`: a step that changes one leaves the frame of main() as it was.
C15_OnlyPollerChangesKnownSets ==
    [][(DOMAIN inputs' # DOMAIN inputs \/ DOMAIN outputs' # DOMAIN outputs)
          => m' = m]_vars

\* C16: a step that opens the port of an input, or takes a message off its
\* queue, is for an input that has a target.
C16_OnlyConnectedInputsDrained ==
    [][\A i \in InputNames :
         (\/ Live(inputs', i) /\ ~Live(inputs, i)
          \/ Len(pending'[i]) < Len(pending[i]))
            => Get(connections, i) # {}]_vars

\* C17: a device the system reports in a poll cycle and did not report in
\* the cycle before has, when it is reported, no edge and no open port left
\* from before.
C17_NewDeviceComesBackBare ==
    [][/\ (p.pc = "idle" /\ p'.pc = "rm_in") =>
            \A i \in p'.new_inputs \ p.new_inputs :
                ~Live(inputs, i) /\ Get(connections, i) = {}
       /\ (p.pc = "add_in" /\ p'.pc = "rm_out") =>
            \A o \in p'.new_outputs \ p.new_outputs :
                /\ ~Live(outputs, o)
                /\ \A k \in DOMAIN connections : o \notin connections[k]]_vars

\* C18: the steps of draw_ports and draw_connections leave `inputs`,
\* `outputs` and `connections` as they were.
C18_DrawIsPureRead ==
    [][(m.pc \in {"draw_in", "draw_in_body", "draw_conn", "draw_conn_body",
                  "draw_out", "draw_out_body"} /\ m' # m)
          => UNCHANGED shared]_vars

====
